---- MODULE Spec2Model ----
(***************************************************************************)
(* A model of harvest-tui.go: the Bubble Tea Model (Model.Update) that      *)
(* drives project selection, task selection, note entry and the start/stop  *)
(* of a Harvest timer, together with the commands it issues and the         *)
(* messages that come back.                                                 *)
(*                                                                          *)
(* Texts (notes, filter text, names) are sequences of one-character         *)
(* strings.  A *Timer is <<>> for nil and <<t>> for a pointer to t.         *)
(* The terminal is taken to be tall enough for a list to fit on one page,   *)
(* so list.Index() is the list's cursor.  Left out: Model.success and the   *)
(* Notes and Hours of a Timer, which View only displays, the window size,   *)
(* and the cursor-blink commands of the text inputs.                        *)
(***************************************************************************)
EXTENDS Naturals, Integers, Sequences, FiniteSets, Bags, TLC

(* ------------------------------ bounds ------------------------------- *)

\* commands issued and not yet delivered back as a message
MaxInFlight == 2
\* characters held by the notes input
MaxNotes == 1
\* characters held by a list's filter input
MaxFilter == 1
\* time entries in one response of the service
MaxEntries == 2
\* timers the service creates in one run
MaxTimers == 2
\* filterItems commands in flight when a key changes a filter text
MaxFilterCmds == 1
\* tea.Quit commands whose QuitMsg is still to come
MaxQuits == 1

(* --------------------------- data of a run --------------------------- *)

\* ids of the projects that the service knows, and the numbers of the tasks
\* within a project
IDs == {1, 2}

\* the characters typed into an input ("q" and "?" never reach one)
Alphabet == {"a"}

NameOf(k) == IF k = 1 THEN <<"a">> ELSE <<"b">>

ProjectPool == {[ID |-> i, Name |-> NameOf(i)] : i \in IDs}

\* the tasks of the time entries of a project: every project has tasks of its
\* own, with ids 10 * projectID + 1 and 10 * projectID + 2
TaskPool(projectID) ==
  {[ID |-> 10 * projectID + k, Name |-> NameOf(k)] : k \in IDs}

SeqsUpTo(S, n) == UNION {[1..k -> S] : k \in 0..n}

\* the Project / Task / ListItem zero value
NoItem == [ID |-> 0, Name |-> <<>>]

Range(s) == {s[i] : i \in 1..Len(s)}

(* ---------------------------- service client -------------------------- *)

\* the map GetProjects and GetTasks build: a later entry overwrites an earlier
\* one with the same id
EntryMap(entries) ==
  [id \in {e.ID : e \in Range(entries)} |->
     entries[CHOOSE i \in 1..Len(entries) :
               /\ entries[i].ID = id
               /\ \A j \in (i + 1)..Len(entries) : entries[j].ID # id]]

\* the lists ranging over that map can yield: Go leaves the order open
MapValues(mp) ==
  {s \in [1..Cardinality(DOMAIN mp) -> {mp[id] : id \in DOMAIN mp}] :
     \A i, j \in DOMAIN s : i # j => s[i] # s[j]}

GetProjects(entries) == MapValues(EntryMap(entries))

GetTasks(entries) == MapValues(EntryMap(entries))

\* the Timer StartTimer decodes from the service's answer
NewTimer(id, projectID, taskID) ==
  [ID |-> id, ProjectID |-> projectID, TaskID |-> taskID, IsRunning |-> TRUE]

(* ------------------------- commands and messages ---------------------- *)

\* a command in flight; a fetch the service has answered is in flight as the
\* time entries of the answer
Cmd(type, id, task, text, items) ==
  [type |-> type, id |-> id, task |-> task, text |-> text, items |-> items]

NoCmd == Cmd("none", 0, 0, <<>>, <<>>)
QuitCmd == Cmd("quit", 0, 0, <<>>, <<>>)
fetchProjects == Cmd("fetchProjects", 0, 0, <<>>, <<>>)
fetchTasks(projectID) == Cmd("fetchTasks", projectID, 0, <<>>, <<>>)
startTimer(projectID, taskID, notes) == Cmd("startTimer", projectID, taskID, notes, <<>>)
stopTimer(timerID) == Cmd("stopTimer", timerID, 0, <<>>, <<>>)
\* list.filterItems: it carries the list's items and filter text of that moment
filterItems(items, text) == Cmd("filterItems", 0, 0, text, items)

Msg(type, key, items, timer, err) ==
  [type |-> type, key |-> key, items |-> items, timer |-> timer, error |-> err,
   success |-> TRUE]

\* before the first call of Update
NoMsg == Msg("none", "", <<>>, <<>>, "")
KeyMsg(k) == Msg("key", k, <<>>, <<>>, "")
fetchProjectsMsg(ps) == Msg("fetchProjectsMsg", "", ps, <<>>, "")
fetchTasksMsg(ts) == Msg("fetchTasksMsg", "", ts, <<>>, "")
startTimerMsg(t) == Msg("startTimerMsg", "", <<>>, <<t>>, "")
stopTimerMsg == Msg("stopTimerMsg", "", <<>>, <<>>, "")
errorMsg(e) == Msg("errorMsg", "", <<>>, <<>>, e)
FilterMatchesMsg(items) == Msg("FilterMatchesMsg", "", items, <<>>, "")
\* tea.QuitMsg, the message of tea.Quit
QuitMsg == Msg("QuitMsg", "", <<>>, <<>>, "")

\* err.Error() of a failed call: never the empty string
ErrText(c) == c.type \o " failed"

ValidationError == "Please enter ticket number and description"

(* ------------------- textinput.Model (notes, filter) ------------------ *)

RuneKeys == Alphabet

\* textinput.Model.Update on a focused input: a rune is appended, backspace
\* deletes the last character, every other message leaves the text alone
TextInputUpdate(text, msg) ==
  IF msg.type = "key" /\ msg.key \in RuneKeys THEN Append(text, msg.key)
  ELSE IF msg.type = "key" /\ msg.key = "backspace" /\ text # <<>>
       THEN SubSeq(text, 1, Len(text) - 1)
  ELSE text

(* ----------------------------- list.Model ----------------------------- *)

ListItems(xs) == [i \in 1..Len(xs) |-> [ID |-> xs[i].ID, Name |-> xs[i].Name]]

\* list.New([]list.Item{}, ...)
NewList ==
  [items |-> <<>>, filterState |-> "Unfiltered", filterValue |-> <<>>,
   filteredItems |-> <<>>, cursor |-> 0]

VisibleItems(l) == IF l.filterState # "Unfiltered" THEN l.filteredItems ELSE l.items

\* Paginator.Page * Paginator.PerPage + cursor, on one page
Index(l) == l.cursor

\* SetItems: a list that is filtering drops its matches and hands back a
\* filter command, which Model.Update throws away
SetItems(l, items) ==
  [l EXCEPT !.items = items,
            !.filteredItems = IF l.filterState # "Unfiltered" THEN <<>> ELSE @]

resetFiltering(l) ==
  IF l.filterState = "Unfiltered" THEN l
  ELSE [l EXCEPT !.filterState = "Unfiltered", !.filterValue = <<>>,
                 !.filteredItems = <<>>]

CursorUp(l) == [l EXCEPT !.cursor = IF @ > 0 THEN @ - 1 ELSE 0]

CursorDown(l) ==
  LET n == Len(VisibleItems(l))
      c == l.cursor + 1
  IN  [l EXCEPT !.cursor = IF c < n THEN c ELSE IF c > n THEN 0 ELSE n - 1]

\* the end of handleBrowsing: "keep the index in bounds when paginating"
ClampCursor(l) ==
  LET n == Len(VisibleItems(l))
  IN  IF l.cursor > n - 1
      THEN [l EXCEPT !.cursor = IF n - 1 > 0 THEN n - 1 ELSE 0]
      ELSE l

RECURSIVE IsSubseq(_, _)
\* the fuzzy match of the default filter: the characters of the pattern
\* occur in the name in that order
IsSubseq(p, s) ==
  IF p = <<>> THEN TRUE
  ELSE IF s = <<>> THEN FALSE
  ELSE IF Head(p) = Head(s) THEN IsSubseq(Tail(p), Tail(s))
  ELSE IsSubseq(p, Tail(s))

\* what a filterItems command computes; names of one character rank alike,
\* so the matches keep the order of the items
FilterResult(c) ==
  LET Hit(it) == IsSubseq(c.text, it.Name)
  IN  IF c.text = <<>> THEN c.items ELSE SelectSeq(c.items, Hit)

\* handleBrowsing: the list and the command it returns
handleBrowsing(l, msg) ==
  IF msg.type # "key" THEN [list |-> ClampCursor(l), cmd |-> NoCmd]
  ELSE IF msg.key = "esc" /\ l.filterState = "FilterApplied"
       THEN [list |-> ClampCursor(resetFiltering(l)), cmd |-> NoCmd]
  ELSE IF msg.key = "esc"
       THEN [list |-> l, cmd |-> QuitCmd]
  ELSE IF msg.key = "up" /\ l.items # <<>>
       THEN [list |-> ClampCursor(CursorUp(l)), cmd |-> NoCmd]
  ELSE IF msg.key = "down" /\ l.items # <<>>
       THEN [list |-> ClampCursor(CursorDown(l)), cmd |-> NoCmd]
  ELSE IF msg.key = "/" /\ l.items # <<>>
       THEN [list |-> [l EXCEPT !.filteredItems =
                                   IF l.filterValue = <<>> THEN l.items ELSE @,
                                 !.cursor = 0,
                                 !.filterState = "Filtering"],
             cmd |-> NoCmd]
  ELSE [list |-> ClampCursor(l), cmd |-> NoCmd]

AcceptKeys == {"enter", "up", "down"}

\* the key part of handleFiltering: cancel, or accept the filter
filteringKey(l, msg) ==
  IF msg.type # "key" THEN l
  ELSE IF msg.key = "esc" THEN resetFiltering(l)
  ELSE IF msg.key \in AcceptKeys /\ l.filterValue # <<>>
       THEN IF l.items = <<>> THEN l
            ELSE IF VisibleItems(l) = <<>> THEN resetFiltering(l)
            ELSE [l EXCEPT !.filterState = "FilterApplied"]
  ELSE l

\* handleFiltering: the key, then the filter input, then a filter command
\* when the filter text has changed
handleFiltering(l, msg) ==
  LET k == filteringKey(l, msg)
      text == IF k.filterState = "Filtering"
              THEN TextInputUpdate(k.filterValue, msg) ELSE k.filterValue
  IN  [list |-> [k EXCEPT !.filterValue = text],
       cmd |-> IF text # k.filterValue THEN filterItems(k.items, text) ELSE NoCmd]

\* list.Model.Update
ListUpdate(l, msg) ==
  IF msg.type = "FilterMatchesMsg"
  THEN [list |-> [l EXCEPT !.filteredItems = msg.items], cmd |-> NoCmd]
  ELSE IF l.filterState = "Filtering" THEN handleFiltering(l, msg)
  ELSE handleBrowsing(l, msg)

(* ------------------------------- state -------------------------------- *)

VARIABLES
  state,            \* Model.state
  projects,         \* Model.projects
  tasks,            \* Model.tasks
  selectedProject,  \* Model.selectedProject
  selectedTask,     \* Model.selectedTask
  ticketInput,      \* Model.ticketInput: the text of the notes input
  projectList,      \* Model.projectList
  taskList,         \* Model.taskList
  activeTimer,      \* Model.activeTimer
  error,            \* Model.error
  quitting,         \* Model.quitting
  showHelp,         \* Model.showHelp
  inflight,         \* bag of the commands issued whose message is still to come
  halted,           \* the runtime has handled a QuitMsg: the program has ended
  nextTimerID,      \* the id the service gives the next timer it creates
  projectsLoaded,   \* a fetchProjectsMsg with at least one project was processed
  lastMsg           \* the message handled last: the one the last call of Update
                    \* was given, or the QuitMsg that ended the program

model == <<state, projects, tasks, selectedProject, selectedTask, ticketInput,
           projectList, taskList, activeTimer, error, quitting, showHelp>>

vars == <<state, projects, tasks, selectedProject, selectedTask, ticketInput,
          projectList, taskList, activeTimer, error, quitting, showHelp,
          inflight, halted, nextTimerID, projectsLoaded, lastMsg>>

\* initialModel, followed by Init, whose command is fetchProjects
Init ==
  /\ state = "loading_projects"
  /\ projects = <<>>
  /\ tasks = <<>>
  /\ selectedProject = NoItem
  /\ selectedTask = NoItem
  /\ ticketInput = <<>>
  /\ projectList = NewList
  /\ taskList = NewList
  /\ activeTimer = <<>>
  /\ error = ""
  /\ quitting = FALSE
  /\ showHelp = FALSE
  /\ inflight = SetToBag({fetchProjects})
  /\ halted = FALSE
  /\ nextTimerID = 1
  /\ projectsLoaded = FALSE
  /\ lastMsg = NoMsg

(* ------------------------- pieces of Model.Update --------------------- *)

\* Update returns c: the runtime runs it, and its message comes later; tea.Quit
\* is such a command, and the program goes on until its QuitMsg is handled
Issue(bag, c) ==
  /\ \/ c.type = "none"
     \/ c.type = "quit" /\ CopiesIn(QuitCmd, bag) < MaxQuits
     \/ /\ c.type \notin {"none", "quit"}
        /\ BagCardinality(bag) - CopiesIn(QuitCmd, bag) < MaxInFlight
  /\ inflight' = IF c.type = "none" THEN bag ELSE bag (+) SetToBag({c})
  /\ halted' = halted

\* the command of the "handle input updates" and "handle list updates" part
UpdateTailCmd(msg, st, pl, tl) ==
  IF st = "enter_details" THEN NoCmd
  ELSE IF st = "select_project" THEN ListUpdate(pl, msg).cmd
  ELSE IF st = "select_task" THEN ListUpdate(tl, msg).cmd
  ELSE NoCmd

\* the end of Update, reached by every case that does not return: the message
\* goes to the notes input in enter_details, to the list of the screen in
\* select_project and select_task
UpdateTail(msg, st, pl, tl, bag) ==
  /\ lastMsg' = msg
  /\ state' = st
  /\ ticketInput' = IF st = "enter_details"
                    THEN TextInputUpdate(ticketInput, msg) ELSE ticketInput
  /\ projectList' = IF st = "select_project" THEN ListUpdate(pl, msg).list ELSE pl
  /\ taskList' = IF st = "select_task" THEN ListUpdate(tl, msg).list ELSE tl
  /\ Issue(bag, UpdateTailCmd(msg, st, pl, tl))

\* how many commands of the types T are in flight
CountOf(T) ==
  BagCardinality([c \in {d \in BagToSet(inflight) : d.type \in T} |-> inflight[c]])

\* the key goes to the filter input of the list on the screen
ToFilter ==
  \/ state = "select_project" /\ projectList.filterState = "Filtering"
  \/ state = "select_task" /\ taskList.filterState = "Filtering"

\* a rune is typed only while the input it goes to has room, and a filter
\* text is changed only while few filterItems commands are in flight
TextRoom(k) ==
  /\ (k \in RuneKeys /\ state = "enter_details") => Len(ticketInput) < MaxNotes
  /\ (k \in RuneKeys /\ state = "select_project" /\ ToFilter)
       => Len(projectList.filterValue) < MaxFilter
  /\ (k \in RuneKeys /\ state = "select_task" /\ ToFilter)
       => Len(taskList.filterValue) < MaxFilter
  /\ ToFilter => CountOf({"filterItems"}) < MaxFilterCmds

(* ------------------------------ key events ---------------------------- *)

\* case "ctrl+c", "q"
KeyQuit ==
  /\ ~halted
  /\ lastMsg' = KeyMsg("q")
  /\ quitting' = TRUE
  /\ Issue(inflight, QuitCmd)
  /\ UNCHANGED <<state, projects, tasks, selectedProject, selectedTask, ticketInput,
                 projectList, taskList, activeTimer, error, showHelp,
                 nextTimerID, projectsLoaded>>

\* the help is shown by "?" and never hidden by it
ToggleHelpOn(shown) == TRUE

\* m.showHelp = !m.showHelp
ToggleHelp(shown) == ~shown

\* case "?"
KeyHelp ==
  /\ ~halted
  /\ lastMsg' = KeyMsg("?")
  /\ showHelp' = ToggleHelp(showHelp)
  /\ Issue(inflight, NoCmd)
  /\ UNCHANGED <<state, projects, tasks, selectedProject, selectedTask, ticketInput,
                 projectList, taskList, activeTimer, error, quitting,
                 nextTimerID, projectsLoaded>>

\* "esc" without the return that follows m.showHelp = false: the switch on
\* m.state is reached with the help shown as well
BackStateFallThrough(st, shown) ==
  IF st = "select_task" THEN "select_project"
  ELSE IF st = "enter_details" THEN "select_task"
  ELSE st

\* the screen after "esc": with the help shown Update returns before the
\* switch on m.state; else select_task goes back to select_project and
\* enter_details to select_task
BackState(st, shown) ==
  IF shown THEN st
  ELSE IF st = "select_task" THEN "select_project"
  ELSE IF st = "enter_details" THEN "select_task"
  ELSE st

\* case "esc" with the help shown
KeyEscHelp ==
  /\ ~halted
  /\ lastMsg' = KeyMsg("esc")
  /\ showHelp
  /\ showHelp' = FALSE
  /\ state' = BackState(state, showHelp)
  /\ Issue(inflight, NoCmd)
  /\ UNCHANGED <<projects, tasks, selectedProject, selectedTask, ticketInput,
                 projectList, taskList, activeTimer, error, quitting,
                 nextTimerID, projectsLoaded>>

\* case "esc" in select_task and enter_details
KeyEscBack ==
  /\ ~halted
  /\ lastMsg' = KeyMsg("esc")
  /\ ~showHelp
  /\ state \in {"select_task", "enter_details"}
  /\ state' = BackState(state, showHelp)
  /\ Issue(inflight, NoCmd)
  /\ UNCHANGED <<projects, tasks, selectedProject, selectedTask, ticketInput,
                 projectList, taskList, activeTimer, error, quitting,
                 showHelp, nextTimerID, projectsLoaded>>

\* case "esc" on the other screens: the switch has no case and the key goes on
\* to the end of Update
KeyEscOther ==
  /\ ~halted
  /\ ~showHelp
  /\ state \notin {"select_task", "enter_details"}
  /\ UpdateTail(KeyMsg("esc"), state, projectList, taskList, inflight)
  /\ UNCHANGED <<projects, tasks, selectedProject, selectedTask, activeTimer,
                 error, quitting, showHelp, nextTimerID,
                 projectsLoaded>>

\* the index is only checked from below
ValidIndexNonNegative(xs, idx) == idx >= 0

\* the upper check is one too far and the list may be empty
ValidIndexInclusive(xs, idx) == idx >= 0 /\ idx <= Len(xs)

\* len(xs) > 0 and idx >= 0 && idx < len(xs)
ValidIndex(xs, idx) == Len(xs) > 0 /\ idx >= 0 /\ idx < Len(xs)

\* xs[idx], which Update reads only under ValidIndex
ItemAt(xs, idx) == IF idx + 1 \in DOMAIN xs THEN xs[idx + 1] ELSE NoItem

\* the tasks that are already held are shown at once
AfterSelectProjectCached == "select_task"

\* the project screen stays while the tasks are loading
AfterSelectProjectStay == "select_project"

\* m.state once a project is selected
AfterSelectProject == "loading_tasks"

\* case "enter" in select_project with a project to select
KeyEnterProject ==
  /\ ~halted
  /\ lastMsg' = KeyMsg("enter")
  /\ state = "select_project"
  /\ ValidIndex(projects, Index(projectList))
  /\ error' = ""
  /\ selectedProject' = ItemAt(projects, Index(projectList))
  /\ state' = AfterSelectProject
  /\ Issue(inflight, fetchTasks(selectedProject'.ID))
  /\ UNCHANGED <<projects, tasks, selectedTask, ticketInput, projectList, taskList,
                 activeTimer, quitting, showHelp, nextTimerID,
                 projectsLoaded>>

\* case "enter" in select_task with a task to select
KeyEnterTask ==
  /\ ~halted
  /\ lastMsg' = KeyMsg("enter")
  /\ state = "select_task"
  /\ ValidIndex(tasks, Index(taskList))
  /\ error' = ""
  /\ selectedTask' = ItemAt(tasks, Index(taskList))
  /\ state' = "enter_details"
  /\ Issue(inflight, NoCmd)
  /\ UNCHANGED <<projects, tasks, selectedProject, ticketInput, projectList,
                 taskList, activeTimer, quitting, showHelp, nextTimerID,
                 projectsLoaded>>

\* case "enter" in enter_details with the ids of startTimer in the wrong order
DetailsCmdSwapped(notes, timer, project, task) ==
  IF notes = <<>> THEN NoCmd
  ELSE IF timer # <<>> THEN stopTimer(timer[1].ID)
  ELSE startTimer(task.ID, project.ID, notes)

\* case "enter" in enter_details without the check of the notes
DetailsCmdUnchecked(notes, timer, project, task) ==
  IF timer # <<>> THEN stopTimer(timer[1].ID)
  ELSE startTimer(project.ID, task.ID, notes)

\* the command of case "enter" in enter_details: none when the notes are
\* empty, else stopTimer when a timer is active, else startTimer
DetailsCmd(notes, timer, project, task) ==
  IF notes = <<>> THEN NoCmd
  ELSE IF timer # <<>> THEN stopTimer(timer[1].ID)
  ELSE startTimer(project.ID, task.ID, notes)

\* case "enter" in enter_details without m.error = "Please enter ..."
DetailsErrorNone(notes) == ""

\* m.error after case "enter" in enter_details
DetailsError(notes) == IF notes = <<>> THEN ValidationError ELSE ""

\* case "enter" in enter_details
KeyEnterDetails ==
  /\ ~halted
  /\ lastMsg' = KeyMsg("enter")
  /\ state = "enter_details"
  /\ error' = DetailsError(ticketInput)
  /\ Issue(inflight, DetailsCmd(ticketInput, activeTimer, selectedProject, selectedTask))
  /\ UNCHANGED <<state, projects, tasks, selectedProject, selectedTask, ticketInput,
                 projectList, taskList, activeTimer, quitting, showHelp,
                 nextTimerID, projectsLoaded>>

\* case "enter" where no case of the switch returns: the messages are cleared
\* and the key goes on to the end of Update
KeyEnterOther ==
  /\ ~halted
  /\ \/ state \in {"loading_projects", "loading_tasks", "error"}
     \/ state = "select_project" /\ ~ValidIndex(projects, Index(projectList))
     \/ state = "select_task" /\ ~ValidIndex(tasks, Index(taskList))
  /\ error' = ""
  /\ UpdateTail(KeyMsg("enter"), state, projectList, taskList, inflight)
  /\ UNCHANGED <<projects, tasks, selectedProject, selectedTask, activeTimer,
                 quitting, showHelp, nextTimerID, projectsLoaded>>

TypeKeys == {"backspace"} \cup RuneKeys

\* a rune or backspace: no case of the key switch, so the key goes to the notes
\* input or to the list of the screen
KeyType ==
  \E k \in TypeKeys :
    /\ ~halted
    /\ TextRoom(k)
    /\ UpdateTail(KeyMsg(k), state, projectList, taskList, inflight)
    /\ UNCHANGED <<projects, tasks, selectedProject, selectedTask, activeTimer,
                   error, quitting, showHelp, nextTimerID, projectsLoaded>>

NavKeys == {"up", "down", "/"}

\* "/" is pressed only where it starts a filter, not where it would be typed
\* into the notes or into a filter
SlashStartsFilter == state \in {"select_project", "select_task"} /\ ~ToFilter

\* a key that moves the cursor of a list or starts its filter: it reaches the
\* list through the end of Update as well
KeyNav ==
  \E k \in NavKeys :
    /\ ~halted
    /\ k = "/" => SlashStartsFilter
    /\ UpdateTail(KeyMsg(k), state, projectList, taskList, inflight)
    /\ UNCHANGED <<projects, tasks, selectedProject, selectedTask, activeTimer,
                   error, quitting, showHelp, nextTimerID, projectsLoaded>>

(* -------------------------- command completions ----------------------- *)

Take(c) == inflight (-) SetToBag({c})

\* what a call of GetProjects can return when it succeeds
ProjectAnswers == UNION {GetProjects(e) : e \in SeqsUpTo(ProjectPool, MaxEntries)}

\* what a call of GetTasks(projectID) can return when it succeeds
TaskAnswers(projectID) ==
  UNION {GetTasks(e) : e \in SeqsUpTo(TaskPool(projectID), MaxEntries)}

\* case fetchProjectsMsg
FetchProjectsDone ==
  /\ ~halted
  /\ \E c \in BagToSet(inflight) :
       /\ c.type = "fetchProjects"
       /\ \E ps \in ProjectAnswers :
            /\ projects' = ps
            /\ projectsLoaded' = (projectsLoaded \/ Len(ps) > 0)
            /\ UpdateTail(fetchProjectsMsg(ps), "select_project",
                          SetItems(projectList, ListItems(ps)), taskList, Take(c))
  /\ UNCHANGED <<tasks, selectedProject, selectedTask, activeTimer, error,
                 quitting, showHelp, nextTimerID>>

\* case fetchTasksMsg
FetchTasksDone ==
  /\ ~halted
  /\ \E c \in BagToSet(inflight) :
       /\ c.type = "fetchTasks"
       /\ \E ts \in TaskAnswers(c.id) :
            /\ tasks' = ts
            /\ UpdateTail(fetchTasksMsg(ts), "select_task", projectList,
                          SetItems(taskList, ListItems(ts)), Take(c))
  /\ UNCHANGED <<projects, selectedProject, selectedTask, activeTimer, error,
                 quitting, showHelp, nextTimerID, projectsLoaded>>

\* m.activeTimer after case startTimerMsg
TimerStarted(timer, msg) == msg.timer

\* case startTimerMsg
StartTimerDone ==
  \E c \in BagToSet(inflight) :
    LET msg == startTimerMsg(NewTimer(nextTimerID, c.id, c.task)) IN
    /\ ~halted
    /\ c.type = "startTimer"
    /\ nextTimerID <= MaxTimers
    /\ nextTimerID' = nextTimerID + 1
    /\ activeTimer' = TimerStarted(activeTimer, msg)
    /\ UpdateTail(msg, state, projectList, taskList, Take(c))
    /\ UNCHANGED <<projects, tasks, selectedProject, selectedTask, error, quitting,
                   showHelp, projectsLoaded>>

\* case stopTimerMsg without m.activeTimer = nil
TimerStoppedKept(timer, msg) == timer

\* m.activeTimer after case stopTimerMsg
TimerStopped(timer, msg) == IF msg.success THEN <<>> ELSE timer

\* case stopTimerMsg; stopTimer only ever sends success: true
StopTimerDone ==
  \E c \in BagToSet(inflight) :
    /\ ~halted
    /\ c.type = "stopTimer"
    /\ activeTimer' = TimerStopped(activeTimer, stopTimerMsg)
    /\ error' = IF stopTimerMsg.success THEN error ELSE "Failed to stop timer"
    /\ UpdateTail(stopTimerMsg, state, projectList, taskList, Take(c))
    /\ UNCHANGED <<projects, tasks, selectedProject, selectedTask, quitting,
                   showHelp, nextTimerID, projectsLoaded>>

\* case errorMsg without the change to the error screen
ErrorStateStay(st) == st

\* m.state after case errorMsg
ErrorState(st) == IF st \in {"loading_projects", "loading_tasks"} THEN "error" ELSE st

\* case errorMsg without m.error = msg.Error()
ErrorShownNone(msg) == ""

\* m.error after case errorMsg
ErrorShown(msg) == msg.error

ServiceCmds == {"fetchProjects", "fetchTasks", "startTimer", "stopTimer"}

\* case errorMsg: a call of the service failed
CmdFailed ==
  \E c \in BagToSet(inflight) :
    /\ ~halted
    /\ c.type \in ServiceCmds
    /\ error' = ErrorShown(errorMsg(ErrText(c)))
    /\ UpdateTail(errorMsg(ErrText(c)), ErrorState(state), projectList, taskList,
                  Take(c))
    /\ UNCHANGED <<projects, tasks, selectedProject, selectedTask, activeTimer,
                   quitting, showHelp, nextTimerID, projectsLoaded>>

\* a list.FilterMatchesMsg: Update has no case for it, so it reaches the list
\* of the screen that is shown when it arrives
FilterDone ==
  \E c \in BagToSet(inflight) :
    /\ ~halted
    /\ c.type = "filterItems"
    /\ UpdateTail(FilterMatchesMsg(FilterResult(c)), state, projectList, taskList,
                  Take(c))
    /\ UNCHANGED <<projects, tasks, selectedProject, selectedTask, activeTimer,
                   error, quitting, showHelp, nextTimerID,
                   projectsLoaded>>

\* the QuitMsg of a tea.Quit: the runtime ends the program without a call of
\* Update, and the messages still to come are never handled
QuitDone ==
  /\ ~halted
  /\ CopiesIn(QuitCmd, inflight) > 0
  /\ lastMsg' = QuitMsg
  /\ inflight' = Take(QuitCmd)
  /\ halted' = TRUE
  /\ UNCHANGED <<state, projects, tasks, selectedProject, selectedTask, ticketInput,
                 projectList, taskList, activeTimer, error, quitting, showHelp,
                 nextTimerID, projectsLoaded>>

\* the engine with its service calls; the cursor of a list stays where the
\* list puts it
Next ==
  \/ KeyQuit
  \/ KeyHelp
  \/ KeyEscHelp
  \/ KeyEscBack
  \/ KeyEscOther
  \/ KeyEnterProject
  \/ KeyEnterTask
  \/ KeyEnterDetails
  \/ KeyEnterOther
  \/ KeyType
  \/ FetchProjectsDone
  \/ FetchTasksDone
  \/ StartTimerDone
  \/ StopTimerDone
  \/ CmdFailed
  \/ QuitDone

Spec == Init /\ [][Next]_vars

\* "esc" on the notes screen
KeyEscDetails == state = "enter_details" /\ KeyEscBack

\* the two selection screens with cursor movement and filtering, for a user
\* who goes forward, from the projects to the notes, and back from the notes
\* only; the matches of a filter arrive when their goroutine is done, before
\* or after the events that follow the key
NextNav ==
  \/ KeyEscDetails
  \/ KeyEscOther
  \/ KeyEnterProject
  \/ KeyEnterTask
  \/ KeyEnterOther
  \/ KeyType
  \/ KeyNav
  \/ FetchProjectsDone
  \/ FetchTasksDone
  \/ FilterDone
  \/ QuitDone

SpecNav == Init /\ [][NextNav]_vars


(* ------------------------- calls that complete ------------------------ *)

\* the fetchProjects in flight completes: its message, or its error, is
\* processed
FetchProjectsCompletes ==
  FetchProjectsDone \/ (CmdFailed /\ lastMsg'.error = ErrText(fetchProjects))

\* the fetchTasks in flight completes
FetchTasksCompletes ==
  FetchTasksDone \/ (CmdFailed /\ lastMsg'.error = ErrText(fetchTasks(0)))

\* a rune or backspace typed into the notes
KeyNotes == state = "enter_details" /\ KeyType

\* the engine without the help, which changes no screen, with text typed only
\* into the notes, and with "esc" only where it goes back a screen: the user
\* quits with "q"
NextLive ==
  \/ KeyQuit
  \/ KeyEscBack
  \/ KeyEnterProject
  \/ KeyEnterTask
  \/ KeyEnterDetails
  \/ KeyEnterOther
  \/ KeyNotes
  \/ FetchProjectsDone
  \/ FetchTasksDone
  \/ StartTimerDone
  \/ StopTimerDone
  \/ CmdFailed
  \/ QuitDone

\* that engine with every fetch completing at last
SpecLive ==
  /\ Init
  /\ [][NextLive]_vars
  /\ WF_vars(FetchProjectsCompletes)
  /\ WF_vars(FetchTasksCompletes)

(* ---------------- selection with the cursor, and the timer ------------- *)

MoveKeys == {"up", "down"}

\* "up" or "down" on a selection screen: the key reaches the list of the
\* screen through the end of Update
KeyMove ==
  \E k \in MoveKeys :
    /\ ~halted
    /\ state \in {"select_project", "select_task"}
    /\ UpdateTail(KeyMsg(k), state, projectList, taskList, inflight)
    /\ UNCHANGED <<projects, tasks, selectedProject, selectedTask, activeTimer,
                   error, quitting, showHelp, nextTimerID, projectsLoaded>>

\* the engine with the cursor of its lists moved by the user, so that any
\* project and any task can be selected; text is typed only into the notes,
\* and the help and quit keys are left out
NextSelect ==
  \/ KeyEscBack
  \/ KeyEnterProject
  \/ KeyEnterTask
  \/ KeyEnterDetails
  \/ KeyNotes
  \/ KeyMove
  \/ FetchProjectsDone
  \/ FetchTasksDone
  \/ StartTimerDone
  \/ StopTimerDone
  \/ CmdFailed

SpecSelect == Init /\ [][NextSelect]_vars

(* ------------------- the answers of the service, decoded --------------- *)

\* the project or task of a time entry in an answer of the service: the same
\* id can come with different names
EntryPool == {[ID |-> i, Name |-> n] : i \in IDs, n \in {<<"a">>, <<"b">>}}

\* result.TimeEntries of an answer
TimeEntries == SeqsUpTo(EntryPool, MaxEntries)

\* the answer of the service to a fetch, on its way to GetProjects / GetTasks
projectEntries(entries) == Cmd("projectEntries", 0, 0, <<>>, entries)
taskEntries(projectID, entries) == Cmd("taskEntries", projectID, 0, <<>>, entries)

\* the service answers a fetchProjects or a fetchTasks with time entries
ServiceAnswers ==
  \E c \in BagToSet(inflight) :
    /\ ~halted
    /\ c.type \in {"fetchProjects", "fetchTasks"}
    /\ \E e \in TimeEntries :
         inflight' = Take(c) (+) SetToBag({IF c.type = "fetchProjects"
                                            THEN projectEntries(e)
                                            ELSE taskEntries(c.id, e)})
    /\ UNCHANGED <<state, projects, tasks, selectedProject, selectedTask,
                   ticketInput, projectList, taskList, activeTimer, error,
                   quitting, showHelp, halted, nextTimerID, projectsLoaded,
                   lastMsg>>

\* GetProjects on the answer, then case fetchProjectsMsg
ProjectsDecoded ==
  \E c \in BagToSet(inflight) :
    /\ ~halted
    /\ c.type = "projectEntries"
    /\ \E ps \in GetProjects(c.items) :
         /\ projects' = ps
         /\ projectsLoaded' = (projectsLoaded \/ Len(ps) > 0)
         /\ UpdateTail(fetchProjectsMsg(ps), "select_project",
                       SetItems(projectList, ListItems(ps)), taskList, Take(c))
    /\ UNCHANGED <<tasks, selectedProject, selectedTask, activeTimer, error,
                   quitting, showHelp, nextTimerID>>

\* GetTasks on the answer, then case fetchTasksMsg
TasksDecoded ==
  \E c \in BagToSet(inflight) :
    /\ ~halted
    /\ c.type = "taskEntries"
    /\ \E ts \in GetTasks(c.items) :
         /\ tasks' = ts
         /\ UpdateTail(fetchTasksMsg(ts), "select_task", projectList,
                       SetItems(taskList, ListItems(ts)), Take(c))
    /\ UNCHANGED <<projects, selectedProject, selectedTask, activeTimer, error,
                   quitting, showHelp, nextTimerID, projectsLoaded>>

\* the fetches with the answers of the service spelled out: the engine
\* selects a project, goes back and selects again
NextEntries ==
  \/ ServiceAnswers
  \/ ProjectsDecoded
  \/ TasksDecoded
  \/ KeyEnterProject
  \/ KeyEscBack

SpecEntries == Init /\ [][NextEntries]_vars

(* ------------------------------ properties ---------------------------- *)

\* the step handles key k
IsKey(k) == lastMsg'.type = "key" /\ lastMsg'.key = k

\* the step puts one more copy of command c in flight
IssuedCmd(c) == CopiesIn(c, inflight') > CopiesIn(c, inflight)

\* the step puts a command of one of the types T in flight
Issued(T) == \E c \in BagToSet(inflight') : c.type \in T /\ IssuedCmd(c)

\* the step takes a command of one of the types T out of flight
Completed(T) ==
  \E c \in BagToSet(inflight) :
    c.type \in T /\ CopiesIn(c, inflight') < CopiesIn(c, inflight)

AllCmds == ServiceCmds \cup {"filterItems"}

\* the step issues no command, tea.Quit included
NothingIssued == ~Issued(AllCmds \cup {"quit"})

\* the list is empty or the index is not one of its positions
OutOfRange(xs, idx) == Len(xs) = 0 \/ idx < 0 \/ idx >= Len(xs)

\* C1: fetchTasks is issued only on the project screen, after a fetchProjects
\* has answered with at least one project and while projects are held; never
\* while loading, on the error screen or with no project
C1_FetchTasksAfterProjects ==
  [][Issued({"fetchTasks"})
       => (projectsLoaded /\ state = "select_project" /\ projects # <<>>)]_vars

\* a fetchTasks is in flight after a project was selected
C1_Witness ==
  /\ lastMsg = KeyMsg("enter")
  /\ state = "loading_tasks"
  /\ projectsLoaded
  /\ CountOf({"fetchTasks"}) = 1

\* C2: "enter" in enter_details with empty notes issues no command, leaves
\* activeTimer alone, stays in enter_details and sets the validation error
C2_EmptyNotesConfirm ==
  [][(IsKey("enter") /\ state = "enter_details" /\ ticketInput = <<>>)
       => /\ NothingIssued
          /\ activeTimer' = activeTimer
          /\ state' = "enter_details"
          /\ error' = ValidationError
          /\ error' # ""]_vars

\* "enter" was pressed in enter_details with empty notes
C2_Witness ==
  /\ lastMsg = KeyMsg("enter")
  /\ state = "enter_details"
  /\ ticketInput = <<>>
  /\ error = ValidationError

\* C3: activeTimer is nil at first; after a startTimerMsg it is the timer of
\* the message, which is not nil; after a stopTimerMsg that reports success
\* it is nil; no other event changes it
C3_ActiveTimerLifecycle ==
  /\ activeTimer = <<>>
  /\ [][/\ lastMsg'.type = "startTimerMsg"
             => (activeTimer' = lastMsg'.timer /\ activeTimer' # <<>>)
        /\ (lastMsg'.type = "stopTimerMsg" /\ lastMsg'.success)
             => activeTimer' = <<>>
        /\ lastMsg'.type \notin {"startTimerMsg", "stopTimerMsg"}
             => activeTimer' = activeTimer]_vars

\* a timer that was started has been stopped
C3_Witness ==
  /\ lastMsg.type = "stopTimerMsg"
  /\ nextTimerID > 1
  /\ activeTimer = <<>>

\* C4: "enter" in enter_details with an active timer issues stopTimer for that
\* timer, whatever the notes are, and no startTimer
C4_ConfirmStopsActiveTimer ==
  [][(IsKey("enter") /\ state = "enter_details" /\ activeTimer # <<>>)
       => (IssuedCmd(stopTimer(activeTimer[1].ID)) /\ ~Issued({"startTimer"}))]_vars

\* C5: when a stopTimer fails, activeTimer keeps its value and the error that
\* is shown is the one of the failure, which is not empty
C5_StopFailureKeepsTimer ==
  [][(lastMsg'.type = "errorMsg" /\ Completed({"stopTimer"}))
       => /\ activeTimer' = activeTimer
          /\ error' = lastMsg'.error
          /\ error' # ""]_vars

\* a stopTimer has failed and the timer is still the active one
C5_Witness ==
  /\ lastMsg.type = "errorMsg"
  /\ lastMsg.error = ErrText(stopTimer(1))
  /\ activeTimer # <<>>
  /\ error # ""

\* C6: "enter" on the project or the task screen with an empty list or an
\* index out of range changes neither the screen nor the selection nor the
\* timer and issues nothing
C6_SelectNothing ==
  [][(/\ IsKey("enter")
      /\ \/ state = "select_project" /\ OutOfRange(projects, Index(projectList))
         \/ state = "select_task" /\ OutOfRange(tasks, Index(taskList)))
       => /\ state' = state
          /\ selectedProject' = selectedProject
          /\ selectedTask' = selectedTask
          /\ activeTimer' = activeTimer
          /\ NothingIssued]_vars

\* "enter" was pressed on the task screen with no task
C6_Witness ==
  /\ lastMsg = KeyMsg("enter")
  /\ state = "select_task"
  /\ tasks = <<>>

\* C7: every selection of a project goes to loading_tasks and issues
\* fetchTasks for the selected project; select_task is entered only by a
\* fetchTasksMsg, which replaces the tasks, or back from enter_details, and
\* enter_details only from select_task
C7_SelectProjectRefetches ==
  [][/\ (/\ IsKey("enter")
         /\ state = "select_project"
         /\ ~OutOfRange(projects, Index(projectList)))
          => /\ state' = "loading_tasks"
             /\ selectedProject' = projects[Index(projectList) + 1]
             /\ IssuedCmd(fetchTasks(selectedProject'.ID))
     /\ (state' = "select_task" /\ state \notin {"select_task", "enter_details"})
          => (lastMsg'.type = "fetchTasksMsg" /\ tasks' = lastMsg'.items)
     /\ (state' = "enter_details" /\ state # "enter_details")
          => state = "select_task"]_vars

\* a project is selected again while tasks of an earlier selection are held
C7_Witness ==
  /\ lastMsg = KeyMsg("enter")
  /\ state = "loading_tasks"
  /\ tasks # <<>>
  /\ CountOf({"fetchTasks"}) = 1

\* C8: "?" flips showHelp, so two of them in a row restore it, and changes
\* nothing else of the model and issues nothing
C8_HelpToggle ==
  [][IsKey("?")
       => /\ showHelp' = ~showHelp
          /\ NothingIssued
          /\ UNCHANGED <<state, projects, tasks, selectedProject, selectedTask,
                         ticketInput, projectList, taskList, activeTimer, error,
                         quitting>>]_vars

\* the help was switched on while a timer is active in enter_details
C8_Witness ==
  /\ lastMsg = KeyMsg("?")
  /\ showHelp
  /\ state = "enter_details"
  /\ activeTimer # <<>>

\* C9: "esc" with the help shown hides the help, keeps the screen and issues
\* nothing; "esc" changes the screen only with the help hidden
C9_BackHidesHelp ==
  [][IsKey("esc")
       => /\ showHelp => /\ showHelp' = FALSE
                         /\ state' = state
                         /\ NothingIssued
          /\ state' # state => ~showHelp]_vars

\* "esc" has hidden the help in enter_details, which "esc" would leave
C9_Witness ==
  /\ lastMsg = KeyMsg("esc")
  /\ ~showHelp
  /\ state = "enter_details"

\* C10: at most one startTimer or stopTimer is in flight
C10_OneTimerCommand == CountOf({"startTimer", "stopTimer"}) <= 1

\* C11: on the project screen no tasks of an earlier project are held: "esc"
\* from select_task has discarded them
C11_NoTasksOnProjectScreen ==
  state = "select_project" => (tasks = <<>> /\ taskList.items = <<>>)

\* C12: a startTimer or stopTimer that fails leaves the screen and the
\* selected project and task as they are, and the error screen is entered
\* only when a fetchProjects or a fetchTasks fails
C12_TimerFailureKeepsScreen ==
  [][/\ (lastMsg'.type = "errorMsg" /\ Completed({"startTimer", "stopTimer"}))
          => /\ state' = state
             /\ selectedProject' = selectedProject
             /\ selectedTask' = selectedTask
     /\ (state' = "error" /\ state # "error")
          => (lastMsg'.type = "errorMsg"
              /\ Completed({"fetchProjects", "fetchTasks"}))]_vars

\* C13: once on the error screen the engine stays on it, whatever key or
\* late message comes
C13_ErrorScreenStays == [][state = "error" => state' = "error"]_vars

\* C14: after a failed service call or a confirm with empty notes, an error
\* text is held or the screen has changed to the error screen
C14_FailureShown ==
  [][(\/ lastMsg'.type = "errorMsg"
      \/ IsKey("enter") /\ state = "enter_details" /\ ticketInput = <<>>)
       => (error' # "" \/ (state' = "error" /\ state # "error"))]_vars

\* a startTimer has failed in enter_details and its error text is held
C14_Witness ==
  /\ lastMsg.type = "errorMsg"
  /\ lastMsg.error = ErrText(startTimer(1, 1, <<"a">>))
  /\ state = "enter_details"
  /\ error = lastMsg.error

\* xs has one element for each id of the entries and no other, each with the
\* name of the first entry that has its id
FirstSeen(entries, xs) ==
  /\ {x.ID : x \in Range(xs)} = {e.ID : e \in Range(entries)}
  /\ \A i, j \in 1..Len(xs) : xs[i].ID = xs[j].ID => i = j
  /\ \A x \in Range(xs) :
       \E i \in 1..Len(entries) :
         /\ entries[i].ID = x.ID
         /\ entries[i].Name = x.Name
         /\ \A j \in 1..(i - 1) : entries[j].ID # x.ID

\* C15: the list GetProjects / GetTasks makes of an answer has exactly one
\* element per id of the time entries, named as the first entry with that id
C15_FirstSeenNames ==
  [][\A c \in BagToSet(inflight) :
       (/\ c.type \in {"projectEntries", "taskEntries"}
        /\ CopiesIn(c, inflight') < CopiesIn(c, inflight)
        /\ lastMsg'.type \in {"fetchProjectsMsg", "fetchTasksMsg"})
         => FirstSeen(c.items, lastMsg'.items)]_vars

\* C16: every startTimer that is issued carries the id of the selected
\* project, the id of the selected task and the notes as they are, which are
\* not empty; the selected task is one of the tasks held, and these are tasks
\* of the selected project
C16_StartTimerCarriesSelection ==
  [][\A c \in BagToSet(inflight') :
       (c.type = "startTimer" /\ IssuedCmd(c))
         => /\ c.id = selectedProject.ID
            /\ c.task = selectedTask.ID
            /\ c.text = ticketInput
            /\ c.text # <<>>
            /\ selectedTask \in Range(tasks)
            /\ Range(tasks) \subseteq TaskPool(selectedProject.ID)]_vars

\* a startTimer is in flight for the second project of the list, which the
\* cursor was moved to, and a task of it
C16_Witness ==
  /\ lastMsg = KeyMsg("enter")
  /\ state = "enter_details"
  /\ selectedProject.ID = 2
  /\ projects[1].ID = 1
  /\ selectedTask.ID = 22
  /\ startTimer(2, 22, ticketInput) \in BagToSet(inflight)

\* the item the list shows the cursor on
Highlighted(l) == VisibleItems(l)[Index(l) + 1]

\* C17: "enter" on a selection screen selects the item the cursor is on in
\* the list as it is shown, filtered or not: on the project screen that
\* project is selected and fetchTasks is issued for it, on the task screen
\* that task is selected (stated for a list that shows its cursor, which it
\* does not while the filter text is being typed)
C17_SelectsHighlighted ==
  [][/\ (/\ IsKey("enter")
         /\ state = "select_project"
         /\ projectList.filterState # "Filtering"
         /\ Index(projectList) < Len(VisibleItems(projectList)))
          => /\ selectedProject' = Highlighted(projectList)
             /\ IssuedCmd(fetchTasks(Highlighted(projectList).ID))
     /\ (/\ IsKey("enter")
         /\ state = "select_task"
         /\ taskList.filterState # "Filtering"
         /\ Index(taskList) < Len(VisibleItems(taskList)))
          => selectedTask' = Highlighted(taskList)]_vars

\* C18: at most one fetchTasks is in flight; fetchProjects is in flight at
\* the start and is never issued again; the fetchTasks that a fetchTasksMsg
\* answers was issued for the project that is selected, and the tasks it
\* brings are tasks of that project
C18_OneFetchTasks ==
  /\ CountOf({"fetchProjects"}) = 1
  /\ CountOf({"fetchTasks"}) = 0
  /\ [][/\ CountOf({"fetchTasks"})' <= 1
        /\ ~Issued({"fetchProjects"})
        /\ lastMsg'.type = "fetchTasksMsg"
             => /\ \A c \in BagToSet(inflight) :
                     (c.type = "fetchTasks"
                      /\ CopiesIn(c, inflight') < CopiesIn(c, inflight))
                       => c.id = selectedProject.ID
                /\ selectedProject' = selectedProject
                /\ tasks' = lastMsg'.items
                /\ Range(tasks') \subseteq TaskPool(selectedProject.ID)]_vars

\* the tasks of the second project of the list have arrived while a
\* startTimer is still in flight
C18_Witness ==
  /\ lastMsg.type = "fetchTasksMsg"
  /\ selectedProject.ID = 2
  /\ projects[1].ID = 1
  /\ tasks # <<>>
  /\ CountOf({"startTimer"}) = 1

\* C19: when every fetch completes, loading_projects is followed by
\* select_project, error or quit, and loading_tasks by select_task, error or
\* quit
C19_LoadingEnds ==
  /\ (state = "loading_projects") ~> (state \in {"select_project", "error"} \/ halted)
  /\ (state = "loading_tasks") ~> (state \in {"select_task", "error"} \/ halted)

\* the loading of tasks has ended on the error screen
C19_Witness ==
  /\ state = "error"
  /\ lastMsg.type = "errorMsg"
  /\ lastMsg.error = ErrText(fetchTasks(0))
  /\ selectedProject # NoItem

\* C20: in enter_details with a timer active, the timer is one that was
\* started for the selected project and the selected task
C20_ActiveTimerOfSelection ==
  (state = "enter_details" /\ activeTimer # <<>>)
    => /\ activeTimer[1].ProjectID = selectedProject.ID
       /\ activeTimer[1].TaskID = selectedTask.ID

\* C21: a stopTimerMsg clears activeTimer only when activeTimer is the timer
\* the stopTimer was issued for, so that the timer the engine holds is cleared
\* only when that timer was stopped on the service
C21_StopClearsItsTimer ==
  [][\A c \in BagToSet(inflight) :
       (/\ c.type = "stopTimer"
        /\ CopiesIn(c, inflight') < CopiesIn(c, inflight)
        /\ lastMsg'.type = "stopTimerMsg"
        /\ activeTimer # <<>>
        /\ activeTimer' = <<>>)
         => activeTimer[1].ID = c.id]_vars

====
